---- MODULE Spec2Model ----
(***************************************************************************)
(* Blumelein Server: order intake, persistence adapter, payment webhook    *)
(* and admin endpoints, modelled as a state machine.                        *)
(*                                                                         *)
(* Conventions                                                             *)
(*   - a UUID is a natural number; its string form str(u) is the pair      *)
(*     <<"uuid", u>>; any other pair is a string that uuid.UUID() rejects   *)
(*   - text fields are sequences of characters, Python None is NoneStr     *)
(*   - enum members carry their Python member name, .value is the token    *)
(*   - a call result is a record [tag, exc, order, orders]                 *)
(***************************************************************************)
EXTENDS Integers, Sequences, FiniteSets, TLC

VARIABLES
    phase,        \* lifespan position: "init", "serving", "failed", "stopped"
    db_adapter,   \* factory._db_adapter is not None
    db,           \* FirestoreAdapter.db: "None", an "open" client, a "closed" client
    store,        \* the 'orders' collection: document id -> document
    clock,        \* the last value datetime.utcnow() returned
    uuids,        \* number of uuid4() values in use: the next one is uuids + 1
    last,         \* the last request: operation, inputs, response, calls made,
                  \* and the adapter's client when it ran
    storeBefore,  \* the collection when the last request started
    close_ran,    \* close() has run since the adapter was last initialized
    tasks,        \* the status updates in flight, each at one of its awaits
    budget        \* the update calls a behaviour may still make (NoCap: any number)

vars == <<phase, db_adapter, db, store, clock, uuids, last, storeBefore,
          close_ran, tasks, budget>>

\* ------------------------------------------------------------------ bounds
MaxUuid == 3
MaxClock == 1
MaxOrders == 2
MaxUpdates == 3

\* ------------------------------------------------------- program constants
MaxCommentsLen == 500
MinNameLen == 1
MaxNameLen == 100
MinEmailLen == 3
MaxEmailLen == 254
MinPhoneLen == 1
MaxPhoneLen == 20
MinAddressLen == 1
MaxAddressLen == 300
HTTP_200_OK == 200
HTTP_201_CREATED == 201
HTTP_400_BAD_REQUEST == 400
HTTP_403_FORBIDDEN == 403
HTTP_404_NOT_FOUND == 404
HTTP_500_INTERNAL_SERVER_ERROR == 500

\* --------------------------------------------------------------- enums
BouquetSize == {"SMALL", "MEDIUM", "LARGE"}

BouquetSizeValue(m) ==
    CASE m = "SMALL" -> "S" [] m = "MEDIUM" -> "M" [] m = "LARGE" -> "L"

BouquetSizeOf(tok) ==
    CASE tok = "S" -> "SMALL" [] tok = "M" -> "MEDIUM" [] tok = "L" -> "LARGE"

PaymentStatus == {"INCOMPLETE", "COMPLETED"}

PaymentStatusValue(m) ==
    CASE m = "INCOMPLETE" -> "Incomplete" [] m = "COMPLETED" -> "Completed"

PaymentStatusOf(tok) ==
    CASE tok = "Incomplete" -> "INCOMPLETE" [] tok = "Completed" -> "COMPLETED"

OrderStatus == {"NOT_STARTED", "IN_PROGRESS", "COMPLETED"}

OrderStatusValue(m) ==
    CASE m = "NOT_STARTED" -> "Not Started"
      [] m = "IN_PROGRESS" -> "In Progress"
      [] m = "COMPLETED" -> "Completed"

OrderStatusOf(tok) ==
    CASE tok = "Not Started" -> "NOT_STARTED"
      [] tok = "In Progress" -> "IN_PROGRESS"
      [] tok = "Completed" -> "COMPLETED"

\* ------------------------------------------------------- strings and UUIDs
NoneStr == <<"<None>">>

UuidStr(u) == <<"uuid", u>>

\* uuid.UUID(s): the UUID a well-formed string denotes, ValueError otherwise
UuidParse(s) ==
    IF s[1] = "uuid" THEN [ok |-> TRUE, uuid |-> s[2]]
                     ELSE [ok |-> FALSE, uuid |-> 0]

\* ------------------------------------------------------------ call results
NoOrder == [order_id |-> 0]

Returned(o) == [tag |-> "Order", exc |-> "", order |-> o, orders |-> <<>>]
ReturnedList(os) == [tag |-> "List", exc |-> "", order |-> NoOrder, orders |-> os]
ReturnedNone == [tag |-> "None", exc |-> "", order |-> NoOrder, orders |-> <<>>]
Raised(e) == [tag |-> "raise", exc |-> e, order |-> NoOrder, orders |-> <<>>]

\* pydantic's ValidationError derives from ValueError
IsValueError(e) == e \in {"ValueError", "ValidationError"}

\* ------------------------------------------------------------ data model
ItemCreateValid(it) ==
    /\ Len(it.main_colours) >= 1
    /\ it.size \in BouquetSize
    /\ (it.comments = NoneStr \/ Len(it.comments) <= MaxCommentsLen)

\* Item(**item.model_dump()): the ItemCreate fields plus a generated id and time
ItemNew(it, id, now) ==
    [item_id |-> id, main_colours |-> it.main_colours, size |-> it.size,
     comments |-> it.comments, created_at |-> now]

\* OrderCreate without min_length=1 on items
OrderCreateValid_AnyItems(req) ==
    /\ \A i \in 1..Len(req.items) : ItemCreateValid(req.items[i])
    /\ Len(req.buyer_full_name) >= MinNameLen
    /\ Len(req.buyer_full_name) <= MaxNameLen
    /\ Len(req.buyer_email) >= MinEmailLen
    /\ Len(req.buyer_email) <= MaxEmailLen
    /\ Len(req.buyer_phone) >= MinPhoneLen
    /\ Len(req.buyer_phone) <= MaxPhoneLen
    /\ Len(req.delivery_address) >= MinAddressLen
    /\ Len(req.delivery_address) <= MaxAddressLen

OrderCreateValid(req) ==
    /\ Len(req.items) >= 1
    /\ \A i \in 1..Len(req.items) : ItemCreateValid(req.items[i])
    /\ Len(req.buyer_full_name) >= MinNameLen
    /\ Len(req.buyer_full_name) <= MaxNameLen
    /\ Len(req.buyer_email) >= MinEmailLen
    /\ Len(req.buyer_email) <= MaxEmailLen
    /\ Len(req.buyer_phone) >= MinPhoneLen
    /\ Len(req.buyer_phone) <= MaxPhoneLen
    /\ Len(req.delivery_address) >= MinAddressLen
    /\ Len(req.delivery_address) <= MaxAddressLen

OrderFields ==
    {"order_id", "items", "buyer_full_name", "buyer_email", "buyer_phone",
     "delivery_address", "payment_status", "order_status", "created_at",
     "updated_at"}

OrderRequired ==
    {"items", "buyer_full_name", "buyer_email", "buyer_phone", "delivery_address"}

\* Order(**kwargs): a field declared Field(...) must be given, the others take
\* their default (uuid4, INCOMPLETE, NOT_STARTED, utcnow) when absent
OrderNew(kwargs, id, created, updated) ==
    LET dflt == [order_id |-> id, payment_status |-> "INCOMPLETE",
                 order_status |-> "NOT_STARTED", created_at |-> created,
                 updated_at |-> updated]
    IN IF OrderRequired \subseteq DOMAIN kwargs
       THEN Returned([f \in OrderFields |->
                        IF f \in DOMAIN kwargs THEN kwargs[f] ELSE dflt[f]])
       ELSE Raised("ValidationError")

\* ------------------------------------------------------ Firestore adapter
ItemToDict(item) ==
    [item_id |-> UuidStr(item.item_id), main_colours |-> item.main_colours,
     size |-> BouquetSizeValue(item.size), comments |-> item.comments,
     created_at |-> item.created_at]

_order_to_dict(order) ==
    [order_id |-> UuidStr(order.order_id),
     items |-> [i \in 1..Len(order.items) |-> ItemToDict(order.items[i])],
     buyer_full_name |-> order.buyer_full_name,
     delivery_address |-> order.delivery_address,
     payment_status |-> PaymentStatusValue(order.payment_status),
     order_status |-> OrderStatusValue(order.order_status),
     created_at |-> order.created_at,
     updated_at |-> order.updated_at]

DictToItem(d) ==
    [item_id |-> UuidParse(d.item_id).uuid, main_colours |-> d.main_colours,
     size |-> BouquetSizeOf(d.size), comments |-> d.comments,
     created_at |-> d.created_at]

DictKeys ==
    {"order_id", "items", "buyer_full_name", "delivery_address", "payment_status",
     "order_status", "created_at", "updated_at"}

_dict_to_order(data) ==
    IF ~(DictKeys \subseteq DOMAIN data) THEN Raised("KeyError")
    ELSE
    OrderNew([order_id |-> UuidParse(data.order_id).uuid,
              items |-> [i \in 1..Len(data.items) |-> DictToItem(data.items[i])],
              buyer_full_name |-> data.buyer_full_name,
              delivery_address |-> data.delivery_address,
              payment_status |-> PaymentStatusOf(data.payment_status),
              order_status |-> OrderStatusOf(data.order_status),
              created_at |-> data.created_at,
              updated_at |-> data.updated_at],
             0, 0, 0)

\* every adapter operation yields [res, store]: its result and the collection after
NotInitialized(st) == [res |-> Raised("RuntimeError"), store |-> st]

\* close() calls self.db.close() without awaiting it and leaves self.db set, so
\* the guard `if not self.db` lets a later operation through to that client.
\* What the client does then is the library's business: it may refuse the call
\* (whatever error it raises is written ClientClosedError) or still serve it.
ClosedClientOutcomes == {"raises", "works"}

\* the client an operation meets behind the guard
Client(d, c) == IF d = "closed" /\ c = "works" THEN "open" ELSE d

\* a closed client that refuses the call
ClosedClient(st) == [res |-> Raised("ClientClosedError"), store |-> st]

create_order(d, st, order) ==
    IF d = "None" THEN NotInitialized(st)
    ELSE IF d = "closed" THEN ClosedClient(st)
    ELSE [res |-> Returned(order),
          store |-> (UuidStr(order.order_id) :> _order_to_dict(order)) @@ st]

get_order(d, st, order_id) ==
    IF d = "None" THEN NotInitialized(st)
    ELSE IF d = "closed" THEN ClosedClient(st)
    ELSE IF UuidStr(order_id) \notin DOMAIN st
         THEN [res |-> ReturnedNone, store |-> st]
         ELSE [res |-> _dict_to_order(st[UuidStr(order_id)]), store |-> st]

\* an update between two of its awaits: where it is suspended next ("return"
\* once it has returned or raised), its result then, and the collection
Suspended(pc, st) == [pc |-> pc, res |-> ReturnedNone, store |-> st]

Returns(res, st) == [pc |-> "return", res |-> res, store |-> st]

\* the payment-status write as a rewrite of the document from its defaults, which
\* puts the order status back to its initial value
WritePaymentStatus_WholeDocument(st, k, payment_status, now) ==
    [st EXCEPT ![k].payment_status = PaymentStatusValue(payment_status),
               ![k].order_status = OrderStatusValue("NOT_STARTED"),
               ![k].updated_at = now]

\* doc_ref.update({"payment_status": ..., "updated_at": ...}): one write of the two
\* named fields of the document that is stored when the write arrives
WritePaymentStatus(st, k, payment_status, now) ==
    [st EXCEPT ![k].payment_status = PaymentStatusValue(payment_status),
               ![k].updated_at = now]

\* the order-status write as a rewrite of the document from its defaults, which
\* puts the payment status back to its initial value
WriteOrderStatus_ResetPayment(st, k, order_status, now) ==
    [st EXCEPT ![k].order_status = OrderStatusValue(order_status),
               ![k].payment_status = PaymentStatusValue("INCOMPLETE"),
               ![k].updated_at = now]

\* doc_ref.update({"order_status": ..., "updated_at": ...})
WriteOrderStatus(st, k, order_status, now) ==
    [st EXCEPT ![k].order_status = OrderStatusValue(order_status),
               ![k].updated_at = now]

\* the update written with set(merge=True), without the exists check
update_order_payment_status_Upsert(d, st, order_id, payment_status, pc, now) ==
    LET k == UuidStr(order_id)
    IN CASE pc = "call" ->
                IF d = "None" THEN Returns(Raised("RuntimeError"), st)
                ELSE IF d = "closed" THEN Returns(Raised("ClientClosedError"), st)
                ELSE Suspended("get", st)
         [] pc = "get" -> Suspended("update", st)
         [] pc = "update" ->
                Suspended("readback",
                          IF k \in DOMAIN st
                          THEN WritePaymentStatus(st, k, payment_status, now)
                          ELSE (k :> [payment_status |->
                                          PaymentStatusValue(payment_status),
                                      updated_at |-> now]) @@ st)
         [] OTHER ->
                IF DictKeys \subseteq DOMAIN st[k]
                THEN Returns(_dict_to_order(st[k]), st)
                ELSE Returns(ReturnedNone, st)

\* update_order_payment_status from one await to the next. pc is where the call
\* stands: "call" (the guard, up to the first get being issued), "get" (the get
\* has answered: the exists check, then the update is issued with the utcnow()
\* read at that moment), "update" (the write lands, carrying the time read when
\* it was issued), "readback" (the second get has answered: convert and return).
\* d is the client the call meets (Client): a closed client that refuses does
\* so at the first call made on it.
update_order_payment_status(d, st, order_id, payment_status, pc, now) ==
    LET k == UuidStr(order_id)
    IN CASE pc = "call" ->
                IF d = "None" THEN Returns(Raised("RuntimeError"), st)
                ELSE IF d = "closed" THEN Returns(Raised("ClientClosedError"), st)
                ELSE Suspended("get", st)
         [] pc = "get" ->
                IF k \notin DOMAIN st THEN Returns(ReturnedNone, st)
                ELSE Suspended("update", st)
         [] pc = "update" ->
                Suspended("readback", WritePaymentStatus(st, k, payment_status, now))
         [] OTHER -> Returns(_dict_to_order(st[k]), st)

\* the update written with set(merge=True), without the exists check
update_order_status_Upsert(d, st, order_id, order_status, pc, now) ==
    LET k == UuidStr(order_id)
    IN CASE pc = "call" ->
                IF d = "None" THEN Returns(Raised("RuntimeError"), st)
                ELSE IF d = "closed" THEN Returns(Raised("ClientClosedError"), st)
                ELSE Suspended("get", st)
         [] pc = "get" -> Suspended("update", st)
         [] pc = "update" ->
                Suspended("readback",
                          IF k \in DOMAIN st
                          THEN WriteOrderStatus(st, k, order_status, now)
                          ELSE (k :> [order_status |-> OrderStatusValue(order_status),
                                      updated_at |-> now]) @@ st)
         [] OTHER ->
                IF DictKeys \subseteq DOMAIN st[k]
                THEN Returns(_dict_to_order(st[k]), st)
                ELSE Returns(ReturnedNone, st)

\* update_order_status from one await to the next, as update_order_payment_status
update_order_status(d, st, order_id, order_status, pc, now) ==
    LET k == UuidStr(order_id)
    IN CASE pc = "call" ->
                IF d = "None" THEN Returns(Raised("RuntimeError"), st)
                ELSE IF d = "closed" THEN Returns(Raised("ClientClosedError"), st)
                ELSE Suspended("get", st)
         [] pc = "get" ->
                IF k \notin DOMAIN st THEN Returns(ReturnedNone, st)
                ELSE Suspended("update", st)
         [] pc = "update" ->
                Suspended("readback", WriteOrderStatus(st, k, order_status, now))
         [] OTHER -> Returns(_dict_to_order(st[k]), st)

\* get_all_orders: the documents in stream order (by document id), converted one
\* by one, then list.sort(key=created_at, reverse=True), which is stable
RECURSIVE DocKeys(_)
DocKeys(S) ==
    IF S = {} THEN <<>>
    ELSE LET k == CHOOSE x \in S : \A y \in S : x[2] <= y[2]
         IN <<k>> \o DocKeys(S \ {k})

RECURSIVE InsertDesc(_, _)
InsertDesc(sorted, o) ==
    IF sorted = <<>> THEN <<o>>
    ELSE IF Head(sorted).created_at >= o.created_at
         THEN <<Head(sorted)>> \o InsertDesc(Tail(sorted), o)
         ELSE <<o>> \o sorted

RECURSIVE SortDesc(_)
SortDesc(os) ==
    IF os = <<>> THEN <<>>
    ELSE InsertDesc(SortDesc(SubSeq(os, 1, Len(os) - 1)), os[Len(os)])

get_all_orders(d, st) ==
    IF d = "None" THEN NotInitialized(st)
    ELSE IF d = "closed" THEN ClosedClient(st)
    ELSE LET keys == DocKeys(DOMAIN st)
             conv == [i \in 1..Len(keys) |-> _dict_to_order(st[keys[i]])]
         IN IF \E i \in 1..Len(keys) : conv[i].tag = "raise"
            THEN [res |-> Raised("ValidationError"), store |-> st]
            ELSE [res |-> ReturnedList(SortDesc([i \in 1..Len(keys) |-> conv[i].order])),
                  store |-> st]

\* ------------------------------------------------------------- factory
\* get_database_adapter(): RuntimeError while the global adapter is None
AdapterAvailable(a) == a

\* --------------------------------------------------------- HTTP responses
\* what a handler leaves behind: the response, the adapter operations it
\* invoked, the processor calls it made and the collection afterwards
Out(status, detail, body, calls, stripe, st) ==
    [status |-> status, detail |-> detail, body |-> body, calls |-> calls,
     stripe |-> stripe, store |-> st]

\* FastAPI answers a request that fails its schema before the handler runs
RequestInvalid(st) == Out(422, "Unprocessable Entity", ReturnedNone, <<>>, 0, st)

\* an exception no handler catches
ServerError(calls, st) ==
    Out(HTTP_500_INTERNAL_SERVER_ERROR, "Internal Server Error", ReturnedNone, calls, 0, st)

NotFound(calls, st) ==
    Out(HTTP_404_NOT_FOUND, "Order not found", ReturnedNone, calls, 0, st)

\* OrderResponse(**order.model_dump())
OrderResponse(o) == [f \in OrderFields |-> o[f]]

\* ------------------------------------------------------------ orders router
submit_order(a, d, st, order_data, u, t0, t1) ==
    IF ~OrderCreateValid(order_data) THEN RequestInvalid(st)
    ELSE LET n == Len(order_data.items)
             items == [i \in 1..n |-> ItemNew(order_data.items[i], u + i, t0)]
             order == OrderNew([items |-> items,
                                buyer_full_name |-> order_data.buyer_full_name,
                                delivery_address |-> order_data.delivery_address],
                               u + n + 1, t0, t1)
         IN IF order.tag = "raise" THEN ServerError(<<>>, st)
            ELSE IF ~AdapterAvailable(a) THEN ServerError(<<>>, st)
            ELSE LET r == create_order(d, st, order.order)
                 IN IF r.res.tag = "raise" THEN ServerError(<<"create_order">>, r.store)
                    ELSE Out(HTTP_201_CREATED, "", Returned(OrderResponse(r.res.order)),
                             <<"create_order">>, 0, r.store)

\* shared by get_order_by_id and get_order_details
FetchOrder(a, d, st, order_id) ==
    IF ~AdapterAvailable(a) THEN ServerError(<<>>, st)
    ELSE LET r == get_order(d, st, order_id)
         IN IF r.res.tag = "raise" THEN ServerError(<<"get_order">>, r.store)
            ELSE IF r.res.tag = "None" THEN NotFound(<<"get_order">>, r.store)
            ELSE Out(HTTP_200_OK, "", Returned(OrderResponse(r.res.order)),
                     <<"get_order">>, 0, r.store)

get_order_by_id(a, d, st, order_id) == FetchOrder(a, d, st, order_id)

\* ---------------------------------------------------------- payments router
PaymentIntentValid(payment_data) == payment_data.amount > 0

\* stripe_ok: whether stripe.PaymentIntent.create answers or raises StripeError
create_payment_intent(a, d, st, payment_data, stripe_ok) ==
    IF ~PaymentIntentValid(payment_data) THEN RequestInvalid(st)
    ELSE IF ~AdapterAvailable(a) THEN ServerError(<<>>, st)
    ELSE LET r == get_order(d, st, payment_data.order_id)
         IN IF r.res.tag = "raise" THEN ServerError(<<"get_order">>, r.store)
            ELSE IF r.res.tag = "None" THEN NotFound(<<"get_order">>, r.store)
            ELSE IF r.res.order.payment_status = "COMPLETED"
                 THEN Out(HTTP_400_BAD_REQUEST, "Order has already been paid",
                          ReturnedNone, <<"get_order">>, 0, r.store)
            ELSE IF stripe_ok
                 THEN Out(HTTP_201_CREATED, "client_secret", ReturnedNone,
                          <<"get_order">>, 1, r.store)
                 ELSE Out(HTTP_400_BAD_REQUEST, "Stripe error", ReturnedNone,
                          <<"get_order">>, 1, r.store)

NoHeader == "<missing>"
GoodSignature == "t=1,v1=good"

\* the body parsed without checking the signature against it
construct_event_Unverified(request) ==
    IF ~request.payload_ok THEN "ValueError" ELSE "event"

\* stripe.Webhook.construct_event: the signature is checked against the body,
\* then the body is parsed
construct_event(request) ==
    IF request.signature # GoodSignature THEN "SignatureVerificationError"
    ELSE IF ~request.payload_ok THEN "ValueError"
    ELSE "event"

Success(calls, st) == Out(HTTP_200_OK, "success", ReturnedNone, calls, 0, st)

\* a handler up to the adapter update it awaits: either it has answered, or it
\* goes on into update_order_payment_status / update_order_status
Responds(out) ==
    [call |-> FALSE, kind |-> "none", order_id |-> 0, value |-> "none", out |-> out]

CallsUpdate(kind, order_id, value, st) ==
    [call |-> TRUE, kind |-> kind, order_id |-> order_id, value |-> value,
     out |-> Out(0, "", ReturnedNone, <<>>, 0, st)]

\* the handler with the failed event handled too, putting the order back to
\* Incomplete
stripe_webhook_FailedResets(a, st, request) ==
    IF request.signature \in {NoHeader, ""}
    THEN Responds(Out(HTTP_400_BAD_REQUEST, "Missing Stripe signature", ReturnedNone,
                      <<>>, 0, st))
    ELSE LET event == construct_event(request)
         IN IF event = "ValueError"
            THEN Responds(Out(HTTP_400_BAD_REQUEST, "Invalid payload", ReturnedNone,
                              <<>>, 0, st))
            ELSE IF event = "SignatureVerificationError"
            THEN Responds(Out(HTTP_400_BAD_REQUEST, "Invalid signature", ReturnedNone,
                              <<>>, 0, st))
            ELSE IF request.order_id_str \in {NoneStr, <<>>}
            THEN Responds(Success(<<>>, st))
            ELSE IF ~UuidParse(request.order_id_str).ok THEN Responds(Success(<<>>, st))
            ELSE IF ~AdapterAvailable(a) THEN Responds(ServerError(<<>>, st))
            ELSE CallsUpdate("payment", UuidParse(request.order_id_str).uuid,
                             IF request.type = "payment_intent.succeeded"
                             THEN "COMPLETED" ELSE "INCOMPLETE", st)

\* stripe_webhook up to `await db.update_order_payment_status(...)`
stripe_webhook(a, st, request) ==
    IF request.signature \in {NoHeader, ""}
    THEN Responds(Out(HTTP_400_BAD_REQUEST, "Missing Stripe signature", ReturnedNone,
                      <<>>, 0, st))
    ELSE LET event == construct_event(request)
         IN IF event = "ValueError"
            THEN Responds(Out(HTTP_400_BAD_REQUEST, "Invalid payload", ReturnedNone,
                              <<>>, 0, st))
            ELSE IF event = "SignatureVerificationError"
            THEN Responds(Out(HTTP_400_BAD_REQUEST, "Invalid signature", ReturnedNone,
                              <<>>, 0, st))
            ELSE IF request.type # "payment_intent.succeeded"
            THEN Responds(Success(<<>>, st))
            ELSE IF request.order_id_str \in {NoneStr, <<>>}
            THEN Responds(Success(<<>>, st))
            ELSE IF ~UuidParse(request.order_id_str).ok THEN Responds(Success(<<>>, st))
            ELSE IF ~AdapterAvailable(a) THEN Responds(ServerError(<<>>, st))
            ELSE CallsUpdate("payment", UuidParse(request.order_id_str).uuid,
                             "COMPLETED", st)

\* stripe_webhook once the update has returned or raised: `except ValueError`
\* swallows the error, a missing order is only logged
stripe_webhook_return(res, st) ==
    IF res.tag = "raise" /\ ~IsValueError(res.exc)
    THEN ServerError(<<"update_order_payment_status">>, st)
    ELSE Success(<<"update_order_payment_status">>, st)

\* ------------------------------------------------------------ manage router
admin_api_key == "secret"

\* any key that is present passes
verify_admin_key_AnyKey(api_key) ==
    IF api_key \in {NoHeader, ""} THEN "Not authenticated" ELSE "ok"

\* APIKeyHeader(auto_error=True) refuses a request without the header, then
\* verify_admin_key compares the key with the configured one
verify_admin_key(api_key) ==
    IF api_key \in {NoHeader, ""} THEN "Not authenticated"
    ELSE IF api_key # admin_api_key THEN "Invalid API key"
    ELSE "ok"

Forbidden(detail, st) == Out(HTTP_403_FORBIDDEN, detail, ReturnedNone, <<>>, 0, st)

list_all_orders(a, d, st, api_key) ==
    IF verify_admin_key(api_key) # "ok" THEN Forbidden(verify_admin_key(api_key), st)
    ELSE IF ~AdapterAvailable(a) THEN ServerError(<<>>, st)
    ELSE LET r == get_all_orders(d, st)
         IN IF r.res.tag = "raise" THEN ServerError(<<"get_all_orders">>, r.store)
            ELSE Out(HTTP_200_OK, "",
                     ReturnedList([i \in 1..Len(r.res.orders) |->
                                      OrderResponse(r.res.orders[i])]),
                     <<"get_all_orders">>, 0, r.store)

\* update_order_processing_status up to `await db.update_order_status(...)`
update_order_processing_status(a, d, st, api_key, order_id, order_status) ==
    IF verify_admin_key(api_key) # "ok"
    THEN Responds(Forbidden(verify_admin_key(api_key), st))
    ELSE IF order_status \notin OrderStatus THEN Responds(RequestInvalid(st))
    ELSE IF ~AdapterAvailable(a) THEN Responds(ServerError(<<>>, st))
    ELSE LET r == get_order(d, st, order_id)
         IN IF r.res.tag = "raise" THEN Responds(ServerError(<<"get_order">>, r.store))
            ELSE IF r.res.tag = "None" THEN Responds(NotFound(<<"get_order">>, r.store))
            ELSE CallsUpdate("order", order_id, order_status, st)

\* update_order_processing_status once the update has returned or raised
update_order_processing_status_return(res, st) ==
    LET calls == <<"get_order", "update_order_status">>
    IN IF res.tag = "raise" THEN ServerError(calls, st)
       ELSE IF res.tag = "None"
       THEN Out(HTTP_500_INTERNAL_SERVER_ERROR, "Failed to update order status",
                ReturnedNone, calls, 0, st)
       ELSE Out(HTTP_200_OK, "", Returned(OrderResponse(res.order)), calls, 0, st)

get_order_details(a, d, st, api_key, order_id) ==
    IF verify_admin_key(api_key) # "ok" THEN Forbidden(verify_admin_key(api_key), st)
    ELSE FetchOrder(a, d, st, order_id)

\* ------------------------------------------------------------------ inputs
ItemA == [main_colours |-> <<"red">>, size |-> "MEDIUM", comments |-> NoneStr]
ItemB == [main_colours |-> <<"red", "pink">>, size |-> "LARGE", comments |-> <<"r">>]

OrderCreateInputs ==
    [items : {<<>>, <<ItemA>>, <<ItemA, ItemB>>},
     buyer_full_name : {<<>>, <<"J">>},
     buyer_email : {<<"a", "@", "b">>},
     buyer_phone : {<<"5">>},
     delivery_address : {<<"1">>}]

UuidInputs == 1..MaxUuid

\* the ids an update is called with: those, and every id handed out so far
UpdateIdInputs == UuidInputs \cup (1..uuids)

PaymentIntentInputs == [order_id : UuidInputs, amount : {0, 5000}, currency : {"usd"}]

OrderIdStrInputs == {NoneStr, <<>>, <<"text", 0>>} \cup {UuidStr(u) : u \in UuidInputs}

\* verified deliveries with every event body, and each way a delivery fails
\* verification with a body that names no order or names one
WebhookInputs ==
    [signature : {GoodSignature}, payload_ok : {TRUE},
     type : {"payment_intent.succeeded", "payment_intent.payment_failed"},
     order_id_str : OrderIdStrInputs]
    \cup
    ([signature : {NoHeader, "", "t=1,v1=bad"}, payload_ok : {TRUE},
      type : {"payment_intent.succeeded"},
      order_id_str : {NoneStr} \cup {UuidStr(u) : u \in UuidInputs}]
     \cup
     [signature : {GoodSignature, "t=1,v1=bad"}, payload_ok : {FALSE},
      type : {"payment_intent.succeeded"},
      order_id_str : {NoneStr} \cup {UuidStr(u) : u \in UuidInputs}])

ApiKeyInputs == {NoHeader, admin_api_key, "wrong"}

OrderStatusInputs == OrderStatus \cup {"Shipped"}

StatusUpdateInputs ==
    [api_key : {admin_api_key}, order_id : UuidInputs, order_status : OrderStatusInputs]
    \cup
    [api_key : ApiKeyInputs, order_id : UuidInputs, order_status : {"IN_PROGRESS"}]

\* datetime.utcnow() never runs backwards and may repeat a value
Now(t) == t \in {clock, clock + 1} /\ t <= MaxClock

\* ------------------------------------------------------------------- state
\* the slots for the status updates in flight at the same time
Tasks == {1, 2}

IdleTask == [pc |-> "idle", op |-> "none", req |-> 0, kind |-> "none",
             order_id |-> 0, value |-> "none", now |-> 0,
             before |-> [k \in {} |-> 0]]

\* a request entering the update it calls; it carries the collection as it was
\* when the request started
NewTask(op, req, c) ==
    [pc |-> "call", op |-> op, req |-> req, kind |-> c.kind, order_id |-> c.order_id,
     value |-> c.value, now |-> 0, before |-> store]

Record(op, req, out, wrote) ==
    [op |-> op, req |-> req, status |-> out.status, detail |-> out.detail,
     body |-> out.body, calls |-> out.calls, stripe |-> out.stripe, db |-> db,
     wrote |-> wrote]

\* no cap on the number of update calls
NoCap == -1

Spend(b) == IF b = NoCap THEN b ELSE b - 1

InitWith(slots, cap) ==
    /\ phase = "init"
    /\ db_adapter = FALSE
    /\ db = "None"
    /\ store = [k \in {} |-> 0]
    /\ clock = 0
    /\ uuids = 0
    /\ last = [op |-> "none", req |-> 0, status |-> 0, detail |-> "",
               body |-> ReturnedNone, calls |-> <<>>, stripe |-> 0, db |-> "None",
               wrote |-> FALSE]
    /\ storeBefore = [k \in {} |-> 0]
    /\ close_ran = FALSE
    /\ tasks = [t \in slots |-> IdleTask]
    /\ budget = cap

\* one update in flight at a time, among the other requests
Init == InitWith({1}, NoCap)

\* two updates in flight together, MaxUpdates update calls in all
InitConc == InitWith(Tasks, MaxUpdates)

\* FirestoreAdapter.initialize(): self.db is assigned once the client is built;
\* when the constructor raises, self.db stays None
initialize(d, client_ok) == IF client_ok THEN "open" ELSE d

\* FirestoreAdapter.close(): `if self.db: self.db.close()`, self.db stays set
close(d) == IF d = "None" THEN d ELSE "closed"

\* initialize_database(): an unknown database_type raises and leaves the global
\* adapter as it was; otherwise a new FirestoreAdapter (db None) becomes the global
\* one, then it is initialized
initialize_database(a, d, outcome) ==
    IF outcome = "unknown_type"
    THEN [db_adapter |-> a, db |-> d, ok |-> FALSE]
    ELSE [db_adapter |-> TRUE, db |-> initialize("None", outcome = "ok"),
          ok |-> outcome = "ok"]

\* close_database(): closes the global adapter, if there is one, and forgets it
close_database(a, d) ==
    IF a THEN [db_adapter |-> FALSE, db |-> close(d), closed |-> TRUE]
         ELSE [db_adapter |-> a, db |-> d, closed |-> FALSE]

StartupOutcomes == {"ok", "client_error", "unknown_type"}

\* lifespan startup: initialize_database() is awaited outside any try/finally; when
\* it raises, the application ends there and the code after `yield` never runs
Startup ==
    /\ phase = "init"
    /\ \E outcome \in StartupOutcomes :
        LET r == initialize_database(db_adapter, db, outcome)
        IN /\ db_adapter' = r.db_adapter
           /\ db' = r.db
           /\ phase' = IF r.ok THEN "serving" ELSE "failed"
    /\ close_ran' = FALSE
    /\ UNCHANGED <<budget, tasks, store, clock, uuids, last, storeBefore>>

\* lifespan shutdown: the code after `yield`
Shutdown ==
    /\ phase = "serving"
    /\ \A t \in DOMAIN tasks : tasks[t].pc = "idle"
    /\ LET r == close_database(db_adapter, db)
       IN /\ db_adapter' = r.db_adapter
          /\ db' = r.db
          /\ close_ran' = (close_ran \/ r.closed)
    /\ phase' = "stopped"
    /\ UNCHANGED <<budget, tasks, store, clock, uuids, last, storeBefore>>

\* FirestoreAdapter.close() called on the adapter itself, before it was
\* initialized or once more after shutdown
AdapterClose ==
    /\ phase \in {"init", "stopped"}
    /\ db' = close(db)
    /\ close_ran' = TRUE
    /\ last' = [op |-> "close", req |-> 0, status |-> 0, detail |-> "",
                body |-> ReturnedNone, calls |-> <<"close">>, stripe |-> 0, db |-> db,
                wrote |-> FALSE]
    /\ storeBefore' = store
    /\ UNCHANGED <<budget, tasks, phase, db_adapter, store, clock, uuids>>

\* a request that runs from its call to its answer with no other request in
\* between
Finish(op, req, out) ==
    /\ last' = Record(op, req, out, out.store # store)
    /\ storeBefore' = store
    /\ store' = out.store

AdapterOut(r, call) == Out(0, "", r.res, <<call>>, 0, r.store)

\* ---- the status updates as the event loop runs them: each await of an update
\* (doc_ref.get(), doc_ref.update(), doc_ref.get()) is a point where another
\* request may run
UpdateStep(d, st, task) ==
    IF task.kind = "payment"
    THEN update_order_payment_status(d, st, task.order_id, task.value, task.pc, task.now)
    ELSE update_order_status(d, st, task.order_id, task.value, task.pc, task.now)

\* what the caller of the update makes of its result
TaskOut(task, res, st) ==
    IF task.op = "stripe_webhook" THEN stripe_webhook_return(res, st)
    ELSE IF task.op = "update_order_processing_status"
    THEN update_order_processing_status_return(res, st)
    ELSE AdapterOut([res |-> res, store |-> st], task.op)

\* the request answers; it has written when it got as far as the read-back
Complete(task, s) ==
    /\ last' = Record(task.op, task.req, TaskOut(task, s.res, s.store),
                      task.pc = "readback")
    /\ storeBefore' = task.before
    /\ store' = s.store

\* the update is called: either the guard ends it there, or it is suspended at
\* its first get, in the lowest free slot
Call(task) ==
    /\ budget # 0
    /\ budget' = Spend(budget)
    /\ \E c \in ClosedClientOutcomes :
        LET s == UpdateStep(Client(db, c), store, task)
        IN IF s.pc = "return"
           THEN Complete(task, s) /\ UNCHANGED tasks
           ELSE /\ \E t \in DOMAIN tasks :
                    /\ tasks[t].pc = "idle"
                    /\ \A u \in DOMAIN tasks : u < t => tasks[u].pc # "idle"
                    /\ tasks' = [tasks EXCEPT ![t] = [task EXCEPT !.pc = s.pc]]
                /\ UNCHANGED <<store, last, storeBefore>>

\* doc = await doc_ref.get() has answered: `if not doc.exists: return None`,
\* else the update is issued with datetime.utcnow() read now
TaskGet ==
    /\ \E t \in DOMAIN tasks, now \in 0..MaxClock :
        /\ tasks[t].pc = "get"
        /\ Now(now)
        /\ LET s == UpdateStep(db, store, tasks[t])
           IN IF s.pc = "return"
              THEN /\ now = clock
                   /\ Complete(tasks[t], s)
                   /\ tasks' = [tasks EXCEPT ![t] = IdleTask]
                   /\ UNCHANGED clock
              ELSE /\ tasks' = [tasks EXCEPT ![t].pc = s.pc, ![t].now = now]
                   /\ clock' = now
                   /\ UNCHANGED <<store, last, storeBefore>>
    /\ UNCHANGED <<budget, close_ran, phase, db_adapter, db, uuids>>

\* the write of `await doc_ref.update({...})` lands, with the time it was issued
\* with
TaskUpdate ==
    /\ \E t \in DOMAIN tasks :
        /\ tasks[t].pc = "update"
        /\ LET s == UpdateStep(db, store, tasks[t])
           IN /\ store' = s.store
              /\ tasks' = [tasks EXCEPT ![t].pc = s.pc]
    /\ UNCHANGED <<budget, close_ran, phase, db_adapter, db, uuids, clock, last, storeBefore>>

\* updated_doc = await doc_ref.get() has answered:
\* return self._dict_to_order(updated_doc.to_dict())
TaskReadBack ==
    /\ \E t \in DOMAIN tasks :
        /\ tasks[t].pc = "readback"
        /\ Complete(tasks[t], UpdateStep(db, store, tasks[t]))
        /\ tasks' = [tasks EXCEPT ![t] = IdleTask]
    /\ UNCHANGED <<budget, close_ran, phase, db_adapter, db, uuids, clock>>

\* the ids and timestamps a request draws are kept only with the order it
\* stores: uuids and clock move when a record is written
SubmitOrder ==
    /\ phase = "serving"
    /\ \E req \in OrderCreateInputs, t0 \in 0..MaxClock, t1 \in 0..MaxClock :
        /\ Now(t0) /\ t1 \in {t0, t0 + 1} /\ t1 <= MaxClock
        /\ OrderCreateValid(req) => uuids + Len(req.items) + 1 <= MaxUuid
        /\ LET out == submit_order(db_adapter, db, store, req, uuids, t0, t1)
           IN /\ IF out.store # store
                 THEN /\ uuids' = uuids + Len(req.items) + 1
                      /\ clock' = t1
                 ELSE /\ t0 = clock /\ t1 = clock
                      /\ UNCHANGED <<uuids, clock>>
              /\ Finish("submit_order", req, out)
    /\ UNCHANGED <<budget, close_ran, tasks, phase, db_adapter, db>>

GetOrderById ==
    /\ phase = "serving"
    /\ \E id \in UuidInputs :
        Finish("get_order_by_id", [order_id |-> id],
               get_order_by_id(db_adapter, db, store, id))
    /\ UNCHANGED <<budget, close_ran, tasks, phase, db_adapter, db, clock, uuids>>

CreatePaymentIntent ==
    /\ phase = "serving"
    /\ \E req \in PaymentIntentInputs, stripe_ok \in BOOLEAN :
        Finish("create_payment_intent", req,
               create_payment_intent(db_adapter, db, store, req, stripe_ok))
    /\ UNCHANGED <<budget, close_ran, tasks, phase, db_adapter, db, clock, uuids>>

StripeWebhook ==
    /\ phase = "serving"
    /\ \E req \in WebhookInputs :
        LET f == stripe_webhook(db_adapter, store, req)
        IN IF f.call THEN Call(NewTask("stripe_webhook", req, f))
                     ELSE Finish("stripe_webhook", req, f.out) /\ UNCHANGED <<tasks, budget>>
    /\ UNCHANGED <<close_ran, phase, db_adapter, db, uuids, clock>>

ListAllOrders ==
    /\ phase = "serving"
    /\ \E key \in ApiKeyInputs :
        Finish("list_all_orders", [api_key |-> key],
               list_all_orders(db_adapter, db, store, key))
    /\ UNCHANGED <<budget, close_ran, tasks, phase, db_adapter, db, clock, uuids>>

UpdateOrderProcessingStatus ==
    /\ phase = "serving"
    /\ \E req \in StatusUpdateInputs :
        LET f == update_order_processing_status(db_adapter, db, store, req.api_key,
                                                req.order_id, req.order_status)
        IN IF f.call THEN Call(NewTask("update_order_processing_status", req, f))
                     ELSE Finish("update_order_processing_status", req, f.out)
                          /\ UNCHANGED <<tasks, budget>>
    /\ UNCHANGED <<close_ran, phase, db_adapter, db, uuids, clock>>

GetOrderDetails ==
    /\ phase = "serving"
    /\ \E key \in ApiKeyInputs, id \in UuidInputs :
        Finish("get_order_details", [api_key |-> key, order_id |-> id],
               get_order_details(db_adapter, db, store, key, id))
    /\ UNCHANGED <<budget, close_ran, tasks, phase, db_adapter, db, clock, uuids>>

\* ---- the persistence adapter driven directly through its own interface

\* createOrder with a fully-formed order: every field of the Order schema given
\* or defaulted, ids and timestamps generated
AdapterCreateOrder ==
    /\ \E req \in OrderCreateInputs, t0 \in 0..MaxClock, t1 \in 0..MaxClock :
        /\ OrderCreateValid(req)
        /\ Now(t0) /\ t1 \in {t0, t0 + 1} /\ t1 <= MaxClock
        /\ uuids + Len(req.items) + 1 <= MaxUuid
        /\ LET n == Len(req.items)
               items == [i \in 1..n |-> ItemNew(req.items[i], uuids + i, t0)]
               order == OrderNew([items |-> items,
                                  buyer_full_name |-> req.buyer_full_name,
                                  buyer_email |-> req.buyer_email,
                                  buyer_phone |-> req.buyer_phone,
                                  delivery_address |-> req.delivery_address],
                                 uuids + n + 1, t0, t1).order
           IN \E c \in ClosedClientOutcomes :
                  Finish("create_order", order,
                         AdapterOut(create_order(Client(db, c), store, order),
                                    "create_order"))
        /\ uuids' = uuids + Len(req.items) + 1
        /\ clock' = t1
    /\ UNCHANGED <<budget, close_ran, tasks, phase, db_adapter, db>>

AdapterGetOrder ==
    /\ \E id \in UuidInputs, c \in ClosedClientOutcomes :
        Finish("get_order", [order_id |-> id],
               AdapterOut(get_order(Client(db, c), store, id), "get_order"))
    /\ UNCHANGED <<budget, close_ran, tasks, phase, db_adapter, db, clock, uuids>>

AdapterGetAllOrders ==
    /\ \E c \in ClosedClientOutcomes :
        Finish("get_all_orders", 0,
               AdapterOut(get_all_orders(Client(db, c), store), "get_all_orders"))
    /\ UNCHANGED <<budget, close_ran, tasks, phase, db_adapter, db, clock, uuids>>

AdapterUpdatePaymentStatus ==
    /\ \E id \in UpdateIdInputs, ps \in PaymentStatus :
        Call(NewTask("update_order_payment_status",
                     [order_id |-> id, payment_status |-> ps],
                     CallsUpdate("payment", id, ps, store)))
    /\ UNCHANGED <<close_ran, phase, db_adapter, db, uuids, clock>>

AdapterUpdateStatus ==
    /\ \E id \in UpdateIdInputs, os \in OrderStatus :
        Call(NewTask("update_order_status",
                     [order_id |-> id, order_status |-> os],
                     CallsUpdate("order", id, os, store)))
    /\ UNCHANGED <<close_ran, phase, db_adapter, db, uuids, clock>>

\* a stored order for the updates to work on: createOrder with one fully-formed
\* single-item order
SeedOrder ==
    /\ db = "open"
    /\ Cardinality(DOMAIN store) < MaxOrders
    /\ \E t0 \in 0..MaxClock :
        /\ Now(t0)
        /\ LET order == OrderNew([items |-> <<ItemNew(ItemA, uuids + 1, t0)>>,
                                  buyer_full_name |-> <<"n">>,
                                  buyer_email |-> <<"e">>,
                                  buyer_phone |-> <<"p">>,
                                  delivery_address |-> <<"a">>],
                                 uuids + 2, t0, t0).order
           IN Finish("create_order", order,
                     AdapterOut(create_order(db, store, order), "create_order"))
        /\ uuids' = uuids + 2
        /\ clock' = t0
    /\ UNCHANGED <<budget, close_ran, tasks, phase, db_adapter, db>>

Next ==
    \/ Startup
    \/ SubmitOrder
    \/ GetOrderById
    \/ CreatePaymentIntent
    \/ StripeWebhook
    \/ ListAllOrders
    \/ UpdateOrderProcessingStatus
    \/ GetOrderDetails
    \/ AdapterCreateOrder
    \/ AdapterGetOrder
    \/ AdapterGetAllOrders
    \/ AdapterUpdatePaymentStatus
    \/ AdapterUpdateStatus
    \/ TaskGet
    \/ TaskUpdate
    \/ TaskReadBack

Spec == Init /\ [][Next]_vars

\* the adapter driven through its whole lifecycle
NextLifecycle ==
    \/ Startup
    \/ Shutdown
    \/ AdapterClose
    \/ AdapterCreateOrder
    \/ AdapterGetOrder
    \/ AdapterGetAllOrders
    \/ AdapterUpdatePaymentStatus
    \/ AdapterUpdateStatus
    \/ TaskGet
    \/ TaskUpdate
    \/ TaskReadBack

SpecLifecycle == Init /\ [][NextLifecycle]_vars

\* the two updates running concurrently on stored orders
NextConc ==
    \/ Startup
    \/ SeedOrder
    \/ AdapterUpdatePaymentStatus
    \/ AdapterUpdateStatus
    \/ TaskGet
    \/ TaskUpdate
    \/ TaskReadBack

SpecConc == InitConc /\ [][NextConc]_vars

\* the HTTP endpoints alone, over orders stored by createOrder
NextEndpoints ==
    \/ Startup
    \/ SubmitOrder
    \/ GetOrderById
    \/ CreatePaymentIntent
    \/ StripeWebhook
    \/ ListAllOrders
    \/ UpdateOrderProcessingStatus
    \/ GetOrderDetails
    \/ AdapterCreateOrder
    \/ TaskGet
    \/ TaskUpdate
    \/ TaskReadBack

SpecEndpoints == Init /\ [][NextEndpoints]_vars

\* ================================================================= claims
Key(req) == UuidStr(req.order_id)

Verified(req) == req.signature = GoodSignature /\ req.payload_ok

DistinctItemIds(items) ==
    \A i, j \in 1..Len(items) : i # j => items[i].item_id # items[j].item_id

\* C1: a valid creation request with at least one item succeeds with 201 and
\* returns an order with an id no stored order had, payment status Incomplete,
\* order status NotStarted and pairwise distinct item ids; afterwards the store
\* holds exactly one more record, under that id.
C1_SubmitCreatesFreshOrder ==
    (last.op = "submit_order" /\ OrderCreateValid(last.req)) =>
        /\ last.status = HTTP_201_CREATED
        /\ last.body.tag = "Order"
        /\ UuidStr(last.body.order.order_id) \notin DOMAIN storeBefore
        /\ last.body.order.payment_status = "INCOMPLETE"
        /\ last.body.order.order_status = "NOT_STARTED"
        /\ Len(last.body.order.items) = Len(last.req.items)
        /\ DistinctItemIds(last.body.order.items)
        /\ DOMAIN store = DOMAIN storeBefore \cup {UuidStr(last.body.order.order_id)}

\* C2: right after createOrder(o) on an initialized adapter, getOrder(o.id)
\* returns an order equal to o in every field of the record.
C2_CreateGetRoundTrip ==
    (last.op = "create_order" /\ last.body.tag = "Order") =>
        get_order(last.db, store, last.req.order_id).res = Returned(last.req)

\* C3: the end-to-end sequence. Submitting a valid order with 2 items answers 201
\* with 2 items of distinct ids and payment status Incomplete; a payment intent
\* for a stored, unpaid order reaches the processor and is not answered with an
\* internal error; and once a verified payment_intent.succeeded event naming a
\* stored order is processed, getOrder on that id returns payment status Completed.
C3_EndToEnd ==
    /\ (last.op = "submit_order" /\ OrderCreateValid(last.req)
            /\ Len(last.req.items) = 2) =>
          /\ last.status = HTTP_201_CREATED
          /\ Len(last.body.order.items) = 2
          /\ DistinctItemIds(last.body.order.items)
          /\ last.body.order.payment_status = "INCOMPLETE"
    /\ (last.op = "create_payment_intent" /\ PaymentIntentValid(last.req)
            /\ Key(last.req) \in DOMAIN storeBefore
            /\ storeBefore[Key(last.req)].payment_status = "Incomplete") =>
          /\ last.stripe = 1
          /\ last.status \in {HTTP_201_CREATED, HTTP_400_BAD_REQUEST}
    /\ (last.op = "stripe_webhook" /\ Verified(last.req)
            /\ last.req.type = "payment_intent.succeeded"
            /\ last.req.order_id_str \in DOMAIN storeBefore) =>
          /\ last.status = HTTP_200_OK
          /\ LET r == get_order(last.db, store, UuidParse(last.req.order_id_str).uuid).res
             IN r.tag = "Order" /\ r.order.payment_status = "COMPLETED"

\* C4: create payment intent on an order stored with payment status Completed is
\* refused as already paid, without a call to the processor and without a change
\* to the store.
C4_PaidOrderConflict ==
    (last.op = "create_payment_intent" /\ PaymentIntentValid(last.req)
        /\ Key(last.req) \in DOMAIN storeBefore
        /\ storeBefore[Key(last.req)].payment_status = "Completed") =>
        /\ last.status = HTTP_400_BAD_REQUEST
        /\ last.detail = "Order has already been paid"
        /\ last.stripe = 0
        /\ ~last.wrote

UnusableOrderId(s, st) ==
    \/ s \in {NoneStr, <<>>}
    \/ ~UuidParse(s).ok
    \/ s \notin DOMAIN st

\* C5: a verified payment_intent.succeeded event whose metadata order id is
\* missing, malformed or names no stored order (none when the request started
\* and none since: documents are never deleted) is acknowledged with success,
\* and the request writes nothing to the store (no record created, none
\* changed): the answer, and the step of its update that finds no document.
C5_Answer ==
    (last.op = "stripe_webhook" /\ Verified(last.req)
        /\ last.req.type = "payment_intent.succeeded"
        /\ UnusableOrderId(last.req.order_id_str, storeBefore)
        /\ UnusableOrderId(last.req.order_id_str, store)) =>
        /\ last.status = HTTP_200_OK
        /\ last.detail = "success"
        /\ ~last.wrote

C5_NoDocumentStep(t) ==
    (/\ tasks[t].op = "stripe_webhook" /\ tasks[t].pc = "get"
     /\ tasks'[t] # tasks[t]
     /\ UuidStr(tasks[t].order_id) \notin DOMAIN store) =>
        /\ tasks'[t].pc = "idle"
        /\ store' = store
        /\ last'.op = "stripe_webhook"
        /\ last'.status = HTTP_200_OK
        /\ ~last'.wrote

C5_WebhookUnknownOrderAcked ==
    []C5_Answer /\ [][\A t \in DOMAIN tasks : C5_NoDocumentStep(t)]_vars

C5_Witness ==
    /\ last.op = "stripe_webhook" /\ Verified(last.req)
    /\ last.req.type = "payment_intent.succeeded"
    /\ last.req.order_id_str \notin {NoneStr, <<>>}
    /\ UuidParse(last.req.order_id_str).ok
    /\ last.req.order_id_str \notin DOMAIN storeBefore
    /\ last.req.order_id_str \notin DOMAIN store
    /\ last.calls = <<"update_order_payment_status">>
    /\ DOMAIN store # {}
    /\ last.status = HTTP_200_OK

\* C6: a webhook delivery without signature header, with an unverifiable payload
\* or with an invalid signature is answered 400 before any adapter operation is
\* invoked, and the store is unchanged whatever the event says.
C6_UnverifiedWebhookRejected ==
    (last.op = "stripe_webhook" /\ ~Verified(last.req)) =>
        /\ last.status = HTTP_400_BAD_REQUEST
        /\ last.calls = <<>>
        /\ ~last.wrote

C6_Witness ==
    /\ last.op = "stripe_webhook"
    /\ last.req.signature = "t=1,v1=bad"
    /\ last.req.type = "payment_intent.succeeded"
    /\ last.req.order_id_str \in DOMAIN store
    /\ store[last.req.order_id_str].payment_status = "Incomplete"
    /\ last.detail = "Invalid signature"

AdminOps == {"list_all_orders", "get_order_details", "update_order_processing_status"}

\* C7: list orders, get order details and update order status, called without
\* the admin key or with another key than the configured one, answer 403 without
\* invoking any adapter operation and without changing the store.
C7_AdminKeyRequired ==
    (last.op \in AdminOps /\ last.req.api_key # admin_api_key) =>
        /\ last.status = HTTP_403_FORBIDDEN
        /\ last.calls = <<>>
        /\ ~last.wrote

C7_Witness ==
    /\ last.op = "update_order_processing_status"
    /\ last.req.api_key = "wrong"
    /\ Key(last.req) \in DOMAIN store
    /\ last.status = HTTP_403_FORBIDDEN

\* C8: a creation request with an empty item list is answered with a validation
\* error before any adapter operation, and the store is the same as before.
C8_EmptyItemsRejected ==
    (last.op = "submit_order" /\ Len(last.req.items) = 0) =>
        /\ last.status = 422
        /\ last.calls = <<>>
        /\ ~last.wrote

C8_Witness ==
    /\ last.op = "submit_order"
    /\ Len(last.req.items) = 0
    /\ Len(last.req.buyer_full_name) >= MinNameLen
    /\ DOMAIN store # {}
    /\ last.status = 422

\* C9: updateOrderPaymentStatus(id, Completed) on a stored order returns the
\* order, and getOrder(id) then returns it with payment status Completed and an
\* updated timestamp strictly later than its created timestamp.
C9_PaymentUpdateVisible ==
    (last.op = "update_order_payment_status" /\ last.db = "open"
        /\ last.req.payment_status = "COMPLETED"
        /\ Key(last.req) \in DOMAIN storeBefore) =>
        /\ last.body.tag = "Order"
        /\ LET r == get_order(last.db, store, last.req.order_id).res
           IN /\ r.tag = "Order"
              /\ r.order.payment_status = "COMPLETED"
              /\ r.order.updated_at > r.order.created_at

AdapterLookups == {"get_order", "update_order_status", "update_order_payment_status"}

\* C10: for an id with no stored record (none when the request started and none
\* since: documents are never deleted), getOrder, updateOrderStatus and
\* updateOrderPaymentStatus on the initialized adapter return absent, the order
\* endpoints (get order, admin get order, admin update status) answer 404, and
\* the request writes nothing to the store: the answer, and the step of an
\* update that finds no document.
C10_Answer ==
    /\ (last.op \in AdapterLookups /\ last.db = "open"
            /\ Key(last.req) \notin DOMAIN storeBefore
            /\ Key(last.req) \notin DOMAIN store) =>
          /\ last.body = ReturnedNone
          /\ ~last.wrote
    /\ (/\ last.op \in {"get_order_by_id", "get_order_details",
                        "update_order_processing_status"}
        /\ last.op \in AdminOps => last.req.api_key = admin_api_key
        /\ last.op = "update_order_processing_status" =>
               last.req.order_status \in OrderStatus
        /\ Key(last.req) \notin DOMAIN storeBefore
        /\ Key(last.req) \notin DOMAIN store) =>
          /\ last.status = HTTP_404_NOT_FOUND
          /\ ~last.wrote

C10_NoDocumentStep(t) ==
    (/\ tasks[t].op \in AdapterLookups /\ tasks[t].pc = "get"
     /\ tasks'[t] # tasks[t]
     /\ UuidStr(tasks[t].order_id) \notin DOMAIN store) =>
        /\ tasks'[t].pc = "idle"
        /\ store' = store
        /\ last'.op = tasks[t].op
        /\ last'.body = ReturnedNone
        /\ ~last'.wrote

C10_UnknownIdNotFound ==
    []C10_Answer /\ [][\A t \in DOMAIN tasks : C10_NoDocumentStep(t)]_vars

C10_Witness ==
    /\ last.op = "update_order_status" /\ last.db = "open"
    /\ Key(last.req) \notin DOMAIN storeBefore
    /\ Key(last.req) \notin DOMAIN store
    /\ DOMAIN store # {}
    /\ last.body.tag = "None"

\* C11: getAllOrders, on the adapter and through the admin list endpoint, returns
\* every stored order exactly once, and no order comes before one with a
\* strictly later creation timestamp.
C11_ListNewestFirst ==
    (/\ last.op \in {"get_all_orders", "list_all_orders"}
     /\ last.db = "open"
     /\ last.op = "list_all_orders" => last.req.api_key = admin_api_key) =>
        /\ last.body.tag = "List"
        /\ Len(last.body.orders) = Cardinality(DOMAIN storeBefore)
        /\ {UuidStr(last.body.orders[i].order_id) : i \in 1..Len(last.body.orders)}
               = DOMAIN storeBefore
        /\ \A i, j \in 1..Len(last.body.orders) :
               i < j => last.body.orders[i].created_at >= last.body.orders[j].created_at

\* C12: admin update order status on a stored order succeeds for every current
\* and every requested status, a re-set to the same value included, and the
\* stored order status afterwards is the requested one.
C12_AnyStatusTransition ==
    (/\ last.op = "update_order_processing_status"
     /\ last.req.api_key = admin_api_key
     /\ last.req.order_status \in OrderStatus
     /\ Key(last.req) \in DOMAIN storeBefore) =>
        /\ last.status = HTTP_200_OK
        /\ store[Key(last.req)].order_status = OrderStatusValue(last.req.order_status)

AdapterOps ==
    {"create_order", "get_order", "get_all_orders", "update_order_payment_status",
     "update_order_status"}

\* C13: a persistence operation invoked while the adapter is not ready (never
\* initialized, initialization failed, or closed) fails with the not-ready
\* RuntimeError and leaves the backing store untouched.
C13_NotReadyFailsFast ==
    (last.op \in AdapterOps /\ last.db # "open") =>
        /\ last.body = Raised("RuntimeError")
        /\ ~last.wrote

\* C14: whenever the application lifecycle has ended, after a shutdown or after
\* a failed startup, close has been run and no client is left open.
C14_ClosedOnEveryExit ==
    phase \in {"stopped", "failed"} => (close_ran /\ db # "open")

\* C15: under any interleaving of concurrent order-status and payment-status
\* updates, each update lands as one write of its status field together with the
\* updated timestamp it was issued with: no other order changes, the other
\* status field of the target keeps the value stored when the write arrives (a
\* concurrent update to it is neither overwritten nor lost), and the written
\* field holds the value of the write that landed last.
C15_WriteStep(t) == tasks[t].pc = "update" /\ tasks'[t].pc = "readback"

C15_WriteEffect(t) ==
    LET k == UuidStr(tasks[t].order_id)
    IN /\ DOMAIN store' = DOMAIN store
       /\ k \in DOMAIN store
       /\ \A j \in DOMAIN store \ {k} : store'[j] = store[j]
       /\ DOMAIN store'[k] = DOMAIN store[k]
       /\ \A f \in DOMAIN store[k] \ {"payment_status", "order_status", "updated_at"} :
              store'[k][f] = store[k][f]
       /\ store'[k].updated_at = tasks[t].now
       /\ IF tasks[t].kind = "payment"
          THEN /\ store'[k].payment_status = PaymentStatusValue(tasks[t].value)
               /\ store'[k].order_status = store[k].order_status
          ELSE /\ store'[k].order_status = OrderStatusValue(tasks[t].value)
               /\ store'[k].payment_status = store[k].payment_status

C15_AtomicIndependentWrites ==
    [][/\ \A t \in DOMAIN tasks : C15_WriteStep(t) => C15_WriteEffect(t)
       /\ store' # store => \E t \in DOMAIN tasks : C15_WriteStep(t) \/ last'.op = "create_order"
      ]_vars

\* two updates of the same order in flight together, the payment update issued
\* first (time 0) and the order-status update second (time 1); the second one's
\* write landed first, then the first one's: the record holds both new values
\* and the timestamp of the write that landed last. While the first of them was
\* in flight (it was issued at time 0), an update of the other stored order was
\* issued at time 1, landed and answered.
C15_Witness ==
    /\ Cardinality(DOMAIN store) = MaxOrders
    /\ last.op = "update_order_status" /\ last.wrote
    /\ last.req.order_id # tasks[1].order_id
    /\ Key(last.req) \in DOMAIN store
    /\ store[Key(last.req)].order_status = OrderStatusValue(last.req.order_status)
    /\ store[Key(last.req)].updated_at = 1
    /\ \A t \in DOMAIN tasks : tasks[t].pc = "readback"
    /\ tasks[1].order_id = tasks[2].order_id
    /\ tasks[1].kind = "payment" /\ tasks[2].kind = "order"
    /\ tasks[1].value = "COMPLETED" /\ tasks[2].value = "IN_PROGRESS"
    /\ tasks[1].now = 0 /\ tasks[2].now = 1
    /\ LET k == UuidStr(tasks[1].order_id)
       IN /\ store[k].payment_status = PaymentStatusValue("COMPLETED")
          /\ store[k].order_status = OrderStatusValue("IN_PROGRESS")
          /\ store[k].updated_at = 0

\* C16: a stored order is never removed and its id, items, buyer name, delivery
\* address and created timestamp never change; the only steps that change a
\* stored order are the write of an order-status update, which changes the order
\* status and updated timestamp of its target alone and leaves the payment
\* status as it was, and the write of a payment-status update, which changes
\* the payment status and updated timestamp alone; the write stores the
\* requested value whatever the other status is.
ImmutableFields ==
    {"order_id", "items", "buyer_full_name", "delivery_address", "created_at"}

C16_Kept(k) ==
    /\ k \in DOMAIN store'
    /\ DOMAIN store'[k] = DOMAIN store[k]
    /\ \A f \in ImmutableFields : store'[k][f] = store[k][f]

C16_Writes(t, k) ==
    /\ tasks[t].pc = "update" /\ tasks'[t].pc = "readback"
    /\ UuidStr(tasks[t].order_id) = k
    /\ IF tasks[t].kind = "order"
       THEN /\ store'[k].order_status = OrderStatusValue(tasks[t].value)
            /\ store'[k].payment_status = store[k].payment_status
       ELSE /\ store'[k].payment_status = PaymentStatusValue(tasks[t].value)
            /\ store'[k].order_status = store[k].order_status

C16_OnlyOneAxis(k) ==
    store'[k] # store[k] =>
        /\ \A j \in DOMAIN store \ {k} : store'[j] = store[j]
        /\ \E t \in DOMAIN tasks : C16_Writes(t, k)

C16_Accepted(t) ==
    (tasks[t].pc = "update" /\ tasks'[t] # tasks[t]) =>
        C16_Writes(t, UuidStr(tasks[t].order_id))

C16_IndependentAxes ==
    [][/\ \A k \in DOMAIN store : C16_Kept(k) /\ C16_OnlyOneAxis(k)
       /\ \A t \in DOMAIN tasks : C16_Accepted(t)]_vars

\* an order-status update has completed an order whose payment is incomplete
C16_Witness ==
    /\ last.op = "update_order_status" /\ last.db = "open" /\ last.wrote
    /\ last.req.order_status = "COMPLETED"
    /\ Key(last.req) \in DOMAIN store
    /\ store[Key(last.req)].order_status = OrderStatusValue("COMPLETED")
    /\ store[Key(last.req)].payment_status = PaymentStatusValue("INCOMPLETE")

\* C17: across requests to the HTTP endpoints a stored payment status that is
\* Completed stays Completed, and the stored payment status changes only when
\* the write of a webhook request lands, to Completed; a redelivered succeeded
\* event leaves it Completed.
C17_Step(k) ==
    /\ k \in DOMAIN store'
    /\ store[k].payment_status = PaymentStatusValue("COMPLETED") =>
           store'[k].payment_status = PaymentStatusValue("COMPLETED")
    /\ store'[k].payment_status # store[k].payment_status =>
           /\ \E t \in DOMAIN tasks : /\ tasks[t].op = "stripe_webhook"
                                /\ tasks[t].pc = "update" /\ tasks'[t].pc = "readback"
                                /\ UuidStr(tasks[t].order_id) = k
           /\ store'[k].payment_status = PaymentStatusValue("COMPLETED")

C17_PaymentMonotonic == [][\A k \in DOMAIN store : C17_Step(k)]_vars

\* the succeeded event delivered twice: one delivery has been answered after
\* writing, the write of the other has landed too
C17_Witness ==
    /\ last.op = "stripe_webhook" /\ Verified(last.req)
    /\ last.req.type = "payment_intent.succeeded"
    /\ last.status = HTTP_200_OK /\ last.wrote
    /\ \E t \in DOMAIN tasks :
          /\ tasks[t].op = "stripe_webhook" /\ tasks[t].pc = "readback"
          /\ UuidStr(tasks[t].order_id) = last.req.order_id_str
          /\ store[last.req.order_id_str].payment_status = PaymentStatusValue("COMPLETED")
====
